---- MODULE Spec2Model ----
(***************************************************************************)
(* Command line arguments of a process on unix (libstd/sys/unix/args.rs):  *)
(* the captured-global backend (ARGC/ARGV behind LOCK, written by init and *)
(* cleanup, copied by args) and the two iterators over a snapshot, Args    *)
(* (owned values) and ArgsRefs (borrowed views).                           *)
(*                                                                         *)
(* Addresses are integers.  One unit of the argv array is one pointer      *)
(* slot, one unit of character memory is one byte.  The process loader     *)
(* lays out argvLen pointers from ArgvBase, a terminating null pointer     *)
(* after them, and the strings themselves from CharBase.                   *)
(***************************************************************************)
EXTENDS Integers, Sequences, FiniteSets, TLC

(* ------------------------------ bounds --------------------------------- *)

\* Largest number of command line arguments the loader hands to the process.
MaxArgc == 2

\* init and cleanup calls followed on the macos / ios backend.
MaxCalls == 2

\* Number of threads that call args() besides the runtime's main thread.
NumReaders == 2

(* ------------------------- program constants --------------------------- *)

\* ptr::null()
NULL == 0

\* The terminator of a C string.
NUL == 0

\* The thread that runs the runtime's startup and shutdown (init, cleanup).
MainThread == 0

Readers == 1..NumReaders

(* --------------------- the loader's memory layout ---------------------- *)

\* Address of the first slot of the argv array.
ArgvBase == 16

\* Address of the first byte of the first argument string.
CharBase == 64

\* Bytes reserved for one argument string, terminator included.
StrStride == 3

\* Length of argument i (0-based): 1, 2, 0, 1, 2, 0, ...
ArgLen(i) == (i + 1) % StrStride

\* The bytes of argument i: ArgLen(i) copies of the letter 'a' + i.
ArgText(i) == [j \in 1..ArgLen(i) |-> 97 + i]

\* Address of the first byte of argument i.
ArgAddr(i) == CharBase + i * StrStride

\* The byte stored at character address a.  Every string slot is padded with
\* NUL bytes; memory outside the strings reads as NUL.
CharAt(a) ==
    IF a >= CharBase /\ a < CharBase + (MaxArgc + 1) * StrStride
    THEN LET i == (a - CharBase) \div StrStride
             j == (a - CharBase) % StrStride
         IN  IF j < ArgLen(i) THEN ArgText(i)[j + 1] ELSE NUL
    ELSE NUL

(* ------------------------------- state --------------------------------- *)

VARIABLES
    argvLen,  \* number of arguments the loader placed at ArgvBase
    ARGC,     \* static mut ARGC
    ARGV,     \* static mut ARGV
    LOCK,     \* static LOCK: the set of threads holding it
    rt,       \* main thread: position in init / cleanup and init's parameters
    pc,       \* reader thread: position in args()
    tmp,      \* reader thread: the fields of the Args being built
    args,     \* reader thread: its Args (argc, argv), or NoArgs
    refs,     \* reader thread: the ArgsRefs borrowed from its Args, or NoRefs
    began,    \* history: lifecycle phase in which the running args() call began
    hist,     \* history of each Args: snapshot, yielded elements, last call
    rhist,    \* history of each ArgsRefs
    pair,     \* history: calls made on an ArgsRefs and then on its Args
    dbg,      \* reader thread: what its last inner_debug() returned
    target,   \* target_os the module is compiled for
    procArgs, \* macos / ios: the C strings of the process's arguments
    calls,    \* macos / ios history: the init and cleanup calls made so far
    dpc,      \* macos / ios: position inside imp::args
    loc,      \* macos / ios: the locals of imp::args
    msgs,     \* ios history: the messages imp::args has sent, in order
    out       \* macos / ios: what the last imp::args call came to

darwinVars == <<target, procArgs, calls, dpc, loc, msgs, out>>

vars == <<argvLen, ARGC, ARGV, LOCK, rt, pc, tmp, args, refs, began, hist,
          rhist, pair, dbg, darwinVars>>

storeVars == <<ARGC, ARGV>>
iterVars  == <<args, refs, hist, rhist, pair>>

(* ----------------------------- values ---------------------------------- *)

None == <<"None">>
Some(v) == <<"Some", v>>

\* macos / ios: imp::args is not running (cnt is argc on macos, res is vec);
\* no imp::args call has finished.  An outcome is the Args returned (its
\* vector) or a panic (the index it happened at), with the init and cleanup
\* calls that came before.
NoLocals == [cnt |-> 0, i |-> 0, res |-> <<>>]
NoOutcome == [kind |-> "none", vec |-> <<>>, at |-> -1, after |-> <<>>]

NoArgs == [argc |-> -1, argv |-> -1]
NoRefs == [argc |-> -1, argv |-> -1]

\* The last-call entry of an iterator on which nothing has been called yet.
NoCall == <<"none", <<"NoCall">>>>

\* `x as usize` for an isize x: the identity on non-negative values; a negative
\* value wraps to the top of the usize range, written here as <<"2^64", x>>.
AsUsize(x) == IF x >= 0 THEN <<x>> ELSE <<"2^64", x>>

(* -------------------------- reading memory ----------------------------- *)

\* strlen: the number of bytes before the first NUL from character address p.
RECURSIVE StrLenFrom(_, _)
StrLenFrom(p, k) == IF CharAt(p + k) = NUL THEN k ELSE StrLenFrom(p, k + 1)

\* CStr::from_ptr(p).to_bytes() as a view <<address, length>>: no byte is copied.
CStrView(p) == <<p, StrLenFrom(p, 0)>>

\* The bytes a view denotes (what to_vec() copies, what an OsStr compares by).
ViewBytes(v) == [j \in 1..v[2] |-> CharAt(v[1] + j - 1)]

\* What reading outside the argument vector can produce: the read is undefined
\* behaviour, so the view is any of these (an empty one, a stale string).
WildViews == {<<NULL, 0>>, CStrView(CharBase), CStrView(CharBase + 1)}

\* CStr::from_ptr(*a) for a slot address a of the argv array: the possible views.
\* Slots ArgvBase .. ArgvBase + argvLen - 1 hold the string pointers; the slot
\* after them holds a null pointer and everything else is unmapped.
ReadArg(a) ==
    IF a >= ArgvBase /\ a < ArgvBase + argvLen
    THEN {CStrView(ArgAddr(a - ArgvBase))}
    ELSE WildViews

(* ---------------- Args and ArgsRefs: the pure steps --------------------- *)

\* A size_hint whose lower bound is not the count.
SizeHintLowerZero(it) == <<AsUsize(0), Some(AsUsize(it.argc))>>

\* Args::len and ExactSizeIterator for ArgsRefs: self.argc as usize.
ArgsLen(it) == AsUsize(it.argc)
RefsLen(it) == AsUsize(it.argc)

\* size_hint: (self.argc as usize, Some(self.argc as usize)).
ArgsSizeHint(it) == <<AsUsize(it.argc), Some(AsUsize(it.argc))>>
RefsSizeHint(it) == <<AsUsize(it.argc), Some(AsUsize(it.argc))>>

\* Args::as_refs: a copy of both fields.
AsRefsOf(it) == [argc |-> it.argc, argv |-> it.argv]

\* One call of an iterator method is an outcome [it, ret, addr]: the iterator
\* afterwards, the value returned, and the argv slot read (NULL when none is).
\* A method has more than one outcome only when it reads outside the vector.

\* Args::next with the cursor left where it was.
ArgsNextStuck(it) ==
    IF it.argc # 0
    THEN {[it   |-> [argc |-> it.argc - 1, argv |-> it.argv],
           ret  |-> Some(ViewBytes(v)),
           addr |-> it.argv] : v \in ReadArg(it.argv)}
    ELSE {[it |-> it, ret |-> None, addr |-> NULL]}

\* Args::next without the test of the count: the slot under the cursor is read
\* even when nothing is left.
ArgsNextUnchecked(it) ==
    {[it   |-> IF it.argc # 0
               THEN [argc |-> it.argc - 1, argv |-> it.argv + 1] ELSE it,
      ret  |-> Some(ViewBytes(v)),
      addr |-> it.argv] : v \in ReadArg(it.argv)}

\* Args::next
ArgsNextOutcomes(it) ==
    IF it.argc # 0
    THEN {[it   |-> [argc |-> it.argc - 1, argv |-> it.argv + 1],
           ret  |-> Some(ViewBytes(v)),
           addr |-> it.argv] : v \in ReadArg(it.argv)}
    ELSE {[it |-> it, ret |-> None, addr |-> NULL]}

\* Args::next_back with the decremented count never stored.
ArgsNextBackKeepsCount(it) ==
    IF it.argc # 0
    THEN LET c == it.argc - 1
         IN  {[it   |-> it,
               ret  |-> Some(ViewBytes(v)),
               addr |-> it.argv + c] : v \in ReadArg(it.argv + c)}
    ELSE {[it |-> it, ret |-> None, addr |-> NULL]}

\* Args::next_back
ArgsNextBackOutcomes(it) ==
    IF it.argc # 0
    THEN LET c == it.argc - 1
         IN  {[it   |-> [argc |-> c, argv |-> it.argv],
               ret  |-> Some(ViewBytes(v)),
               addr |-> it.argv + c] : v \in ReadArg(it.argv + c)}
    ELSE {[it |-> it, ret |-> None, addr |-> NULL]}

\* ArgsRefs::next with the count decremented twice.
RefsNextDoubleDecrement(it) ==
    IF it.argc # 0
    THEN {[it   |-> [argc |-> it.argc - 2, argv |-> it.argv + 1],
           ret  |-> Some(v),
           addr |-> it.argv] : v \in ReadArg(it.argv)}
    ELSE {[it |-> it, ret |-> None, addr |-> NULL]}

\* ArgsRefs::next: as Args::next, but the value is the view itself.
RefsNextOutcomes(it) ==
    IF it.argc # 0
    THEN {[it   |-> [argc |-> it.argc - 1, argv |-> it.argv + 1],
           ret  |-> Some(v),
           addr |-> it.argv] : v \in ReadArg(it.argv)}
    ELSE {[it |-> it, ret |-> None, addr |-> NULL]}

\* ArgsRefs::next_back reading at the count before it is decremented.
RefsNextBackOffByOne(it) ==
    IF it.argc # 0
    THEN LET c == it.argc - 1
         IN  {[it   |-> [argc |-> c, argv |-> it.argv],
               ret  |-> Some(v),
               addr |-> it.argv + it.argc] : v \in ReadArg(it.argv + it.argc)}
    ELSE {[it |-> it, ret |-> None, addr |-> NULL]}

\* ArgsRefs::next_back
RefsNextBackOutcomes(it) ==
    IF it.argc # 0
    THEN LET c == it.argc - 1
         IN  {[it   |-> [argc |-> c, argv |-> it.argv],
               ret  |-> Some(v),
               addr |-> it.argv + c] : v \in ReadArg(it.argv + c)}
    ELSE {[it |-> it, ret |-> None, addr |-> NULL]}

\* self.as_refs().collect(): next() on the fresh ArgsRefs until it returns
\* None, the views gathered in call order.
RECURSIVE Collect(_)
Collect(it) ==
    UNION {IF o.ret = None
           THEN {<<>>}
           ELSE {<<o.ret[2]>> \o rest : rest \in Collect(o.it)}
             : o \in RefsNextOutcomes(it)}

\* The bytes of a value returned by ArgsRefs, for comparison with an owned one.
RetBytes(ret) == IF ret = None THEN None ELSE Some(ViewBytes(ret[2]))

(* ------------------------------ history -------------------------------- *)

\* History of an iterator: the (count, base) it was created with, the slots read
\* and values returned by its successful next() and next_back() calls in call
\* order, its last call, and (for an Args) when the args() call ran.
FreshHist(it, era) ==
    [snap |-> <<it.argc, it.argv>>, fwd |-> <<>>, bwd |-> <<>>,
     last |-> NoCall, era |-> era]

NoHist == FreshHist(NoArgs, "none")

Record(h, op, o) ==
    [h EXCEPT !.last = <<op, o.ret>>,
              !.fwd  = IF op = "next" /\ o.ret # None
                       THEN Append(@, <<o.addr, o.ret[2]>>) ELSE @,
              !.bwd  = IF op = "next_back" /\ o.ret # None
                       THEN Append(@, <<o.addr, o.ret[2]>>) ELSE @]

\* Longest call sequence followed on an ArgsRefs and replayed on its Args.
MaxTrace == MaxArgc + 2

NoPair == [on |-> FALSE, r |-> <<>>, a |-> <<>>]

\* No inner_debug() call yet.  Otherwise: the Vec returned, with the Args it
\* was called on, that Args' snapshot and how many elements it had yielded
\* from each end.
NoDebug ==
    [it |-> NoArgs, snap |-> <<-1, -1>>, nfwd |-> 0, nbwd |-> 0, vec |-> <<>>]

\* The lifecycle phase of the store as the main thread's position shows it.
Phase ==
    CASE rt.pc = "start"   -> "pre"
      [] rt.pc = "running" -> "window"
      [] rt.pc = "done"    -> "post"
      [] OTHER             -> "mixed"

(* ------------------------------ the lock ------------------------------- *)

\* A lock() that returns at once whether or not the mutex is held.
LockAcquireNoWait(t) == LOCK' = LOCK \cup {t}

\* LOCK.lock(): blocks until no thread holds the mutex, then takes it.
LockAcquire(t) == LOCK = {} /\ LOCK' = {t}

\* A guard that is leaked instead of dropped: the mutex stays locked.
LockReleaseLeaks(t) == LOCK' = LOCK

\* Dropping the guard at the end of its scope.
LockRelease(t) == LOCK' = LOCK \ {t}

(* ------------------- init and cleanup (main thread) -------------------- *)

\* The runtime's startup calls init(argc, argv) with what the loader provided.
InitCall ==
    /\ rt.pc = "start"
    /\ rt' = [pc |-> "init_lock", argc |-> argvLen, argv |-> ArgvBase]
    /\ UNCHANGED <<darwinVars, dbg, argvLen,
                   storeVars, LOCK, pc, tmp, began, iterVars>>

\* let _guard = LOCK.lock();
InitLock ==
    /\ rt.pc = "init_lock"
    /\ LockAcquire(MainThread)
    /\ rt' = [rt EXCEPT !.pc = "init_argc"]
    /\ UNCHANGED <<darwinVars, dbg, argvLen,
                   storeVars, pc, tmp, began, iterVars>>

\* ARGC = argc;
InitSetArgc ==
    /\ rt.pc = "init_argc"
    /\ ARGC' = rt.argc
    /\ rt' = [rt EXCEPT !.pc = "init_argv"]
    /\ UNCHANGED <<darwinVars, dbg, argvLen,
                   ARGV, LOCK, pc, tmp, began, iterVars>>

\* ARGV = argv;
InitSetArgv ==
    /\ rt.pc = "init_argv"
    /\ ARGV' = rt.argv
    /\ rt' = [rt EXCEPT !.pc = "init_ret"]
    /\ UNCHANGED <<darwinVars, dbg, argvLen,
                   ARGC, LOCK, pc, tmp, began, iterVars>>

\* The guard is dropped and init returns.
InitReturn ==
    /\ rt.pc = "init_ret"
    /\ LockRelease(MainThread)
    /\ rt' = [rt EXCEPT !.pc = "running"]
    /\ UNCHANGED <<darwinVars, dbg, argvLen,
                   storeVars, pc, tmp, began, iterVars>>

\* The runtime's shutdown calls cleanup().
CleanupCall ==
    /\ rt.pc = "running"
    /\ rt' = [rt EXCEPT !.pc = "cleanup_lock"]
    /\ UNCHANGED <<darwinVars, dbg, argvLen,
                   storeVars, LOCK, pc, tmp, began, iterVars>>

\* let _guard = LOCK.lock();
CleanupLock ==
    /\ rt.pc = "cleanup_lock"
    /\ LockAcquire(MainThread)
    /\ rt' = [rt EXCEPT !.pc = "cleanup_argc"]
    /\ UNCHANGED <<darwinVars, dbg, argvLen,
                   storeVars, pc, tmp, began, iterVars>>

\* A cleanup that leaves the count as it is.
CleanupKeepsArgc ==
    /\ rt.pc = "cleanup_argc"
    /\ ARGC' = ARGC
    /\ rt' = [rt EXCEPT !.pc = "cleanup_argv"]
    /\ UNCHANGED <<darwinVars, dbg, argvLen,
                   ARGV, LOCK, pc, tmp, began, iterVars>>

\* ARGC = 0;
CleanupSetArgc ==
    /\ rt.pc = "cleanup_argc"
    /\ ARGC' = 0
    /\ rt' = [rt EXCEPT !.pc = "cleanup_argv"]
    /\ UNCHANGED <<darwinVars, dbg, argvLen,
                   ARGV, LOCK, pc, tmp, began, iterVars>>

\* A cleanup that also empties every Args and ArgsRefs handed out so far.
CleanupInvalidates ==
    /\ rt.pc = "cleanup_argv"
    /\ ARGV' = NULL
    /\ rt' = [rt EXCEPT !.pc = "cleanup_ret"]
    /\ args' = [t \in Readers |->
                  IF args[t] = NoArgs THEN NoArgs
                  ELSE [argc |-> 0, argv |-> NULL]]
    /\ refs' = [t \in Readers |->
                  IF refs[t] = NoRefs THEN NoRefs
                  ELSE [argc |-> 0, argv |-> NULL]]
    /\ UNCHANGED <<darwinVars, dbg, argvLen,
                   ARGC, LOCK, pc, tmp, began, hist, rhist, pair>>

\* ARGV = ptr::null();
CleanupSetArgv ==
    /\ rt.pc = "cleanup_argv"
    /\ ARGV' = NULL
    /\ rt' = [rt EXCEPT !.pc = "cleanup_ret"]
    /\ UNCHANGED <<darwinVars, dbg, argvLen,
                   ARGC, LOCK, pc, tmp, began, iterVars>>

\* The guard is dropped and cleanup returns.
CleanupReturn ==
    /\ rt.pc = "cleanup_ret"
    /\ LockRelease(MainThread)
    /\ rt' = [rt EXCEPT !.pc = "done"]
    /\ UNCHANGED <<darwinVars, dbg, argvLen,
                   storeVars, pc, tmp, began, iterVars>>

(* --------------------------- args (any thread) ------------------------- *)

\* A thread calls args().  The Args it may already hold is replaced when the
\* call returns, which the borrow of a live ArgsRefs forbids.
ArgsCall(t) ==
    /\ pc[t] = "idle"
    /\ refs[t] = NoRefs
    /\ pc' = [pc EXCEPT ![t] = "args_lock"]
    /\ began' = [began EXCEPT ![t] = Phase]
    /\ UNCHANGED <<darwinVars, dbg, argvLen,
                   storeVars, LOCK, rt, tmp, iterVars>>

\* An args() that goes on to read the store without taking the lock.
ArgsLockSkipped(t) ==
    /\ pc[t] = "args_lock"
    /\ pc' = [pc EXCEPT ![t] = "args_argc"]
    /\ UNCHANGED <<darwinVars, dbg, argvLen,
                   storeVars, LOCK, rt, tmp, began, iterVars>>

\* let _guard = LOCK.lock();
ArgsLock(t) ==
    /\ pc[t] = "args_lock"
    /\ LockAcquire(t)
    /\ pc' = [pc EXCEPT ![t] = "args_argc"]
    /\ UNCHANGED <<darwinVars, dbg, argvLen,
                   storeVars, rt, tmp, began, iterVars>>

\* An args() that takes the count out of the store instead of copying it.
ArgsTakeArgc(t) ==
    /\ pc[t] = "args_argc"
    /\ tmp' = [tmp EXCEPT ![t].argc = ARGC]
    /\ ARGC' = 0
    /\ pc' = [pc EXCEPT ![t] = "args_argv"]
    /\ UNCHANGED <<darwinVars, dbg, argvLen, ARGV, LOCK, rt, began, iterVars>>

\* argc : ARGC,
ArgsReadArgc(t) ==
    /\ pc[t] = "args_argc"
    /\ tmp' = [tmp EXCEPT ![t].argc = ARGC]
    /\ pc' = [pc EXCEPT ![t] = "args_argv"]
    /\ UNCHANGED <<darwinVars, dbg, argvLen,
                   storeVars, LOCK, rt, began, iterVars>>

\* argv : ARGV,
ArgsReadArgv(t) ==
    /\ pc[t] = "args_argv"
    /\ tmp' = [tmp EXCEPT ![t].argv = ARGV]
    /\ pc' = [pc EXCEPT ![t] = "args_ret"]
    /\ UNCHANGED <<darwinVars, dbg, argvLen,
                   storeVars, LOCK, rt, began, iterVars>>

\* An args() that moves the pair out of the store instead of copying it.
ArgsReturnTakes(t) ==
    /\ pc[t] = "args_ret"
    /\ LockRelease(t)
    /\ args' = [args EXCEPT ![t] = tmp[t]]
    /\ hist' = [hist EXCEPT ![t] =
                  FreshHist(tmp[t], IF began[t] = Phase THEN Phase ELSE "mixed")]
    /\ pair' = [pair EXCEPT ![t] = NoPair]
    /\ tmp' = [tmp EXCEPT ![t] = NoArgs]
    /\ pc' = [pc EXCEPT ![t] = "idle"]
    /\ began' = [began EXCEPT ![t] = "none"]
    /\ ARGC' = 0
    /\ ARGV' = NULL
    /\ UNCHANGED <<darwinVars, dbg, argvLen, rt, refs, rhist>>

\* The guard is dropped and the Args is returned to the caller.
ArgsReturn(t) ==
    /\ pc[t] = "args_ret"
    /\ LockRelease(t)
    /\ args' = [args EXCEPT ![t] = tmp[t]]
    /\ hist' = [hist EXCEPT ![t] =
                  FreshHist(tmp[t], IF began[t] = Phase THEN Phase ELSE "mixed")]
    /\ pair' = [pair EXCEPT ![t] = NoPair]
    /\ tmp' = [tmp EXCEPT ![t] = NoArgs]
    /\ pc' = [pc EXCEPT ![t] = "idle"]
    /\ began' = [began EXCEPT ![t] = "none"]
    /\ UNCHANGED <<darwinVars, dbg, argvLen, storeVars, rt, refs, rhist>>

(* --------------------------- using an Args ----------------------------- *)

\* History of a call on an ArgsRefs: the call, the bytes returned and len()
\* afterwards join the trace (which stops growing at MaxTrace entries).
Lead(p, op, ret, len) ==
    IF p.on /\ Len(p.r) < MaxTrace
    THEN [p EXCEPT !.r = Append(@, <<op, ret, len>>)]
    ELSE p

\* History of a call on the Args an ArgsRefs was taken from, once the ArgsRefs
\* is gone: it joins the trace while it repeats the calls made on the ArgsRefs.
Follow(p, op, ret, len) ==
    IF p.on /\ Len(p.a) < Len(p.r) /\ p.r[Len(p.a) + 1][1] = op
    THEN [p EXCEPT !.a = Append(@, <<op, ret, len>>)]
    ELSE NoPair

\* args.next() with the count and cursor kept in one place for all threads.
ArgsNextShared(t) ==
    /\ pc[t] = "idle"
    /\ args[t] # NoArgs
    /\ refs[t] = NoRefs
    /\ \E o \in ArgsNextOutcomes(args[t]) :
         /\ args' = [u \in Readers |-> IF args[u] = NoArgs THEN NoArgs ELSE o.it]
         /\ hist' = [hist EXCEPT ![t] = Record(@, "next", o)]
         /\ pair' = [pair EXCEPT ![t] = Follow(@, "next", o.ret, ArgsLen(o.it))]
    /\ UNCHANGED <<darwinVars, dbg, argvLen,
                   storeVars, LOCK, rt, pc, tmp, began, refs, rhist>>

\* args.next().  Needs &mut self: no ArgsRefs borrows the Args.
ArgsNext(t) ==
    /\ pc[t] = "idle"
    /\ args[t] # NoArgs
    /\ refs[t] = NoRefs
    /\ \E o \in ArgsNextOutcomes(args[t]) :
         /\ args' = [args EXCEPT ![t] = o.it]
         /\ hist' = [hist EXCEPT ![t] = Record(@, "next", o)]
         /\ pair' = [pair EXCEPT ![t] = Follow(@, "next", o.ret, ArgsLen(o.it))]
    /\ UNCHANGED <<darwinVars, dbg, argvLen,
                   storeVars, LOCK, rt, pc, tmp, began, refs, rhist>>

\* args.next_back() that treats an exhausted Args as one holding the whole
\* snapshot again.
ArgsNextBackRewinds(t) ==
    /\ pc[t] = "idle"
    /\ args[t] # NoArgs
    /\ refs[t] = NoRefs
    /\ LET it == IF args[t].argc = 0
                 THEN [argc |-> hist[t].snap[1], argv |-> hist[t].snap[2]]
                 ELSE args[t]
       IN  \E o \in ArgsNextBackOutcomes(it) :
              /\ args' = [args EXCEPT ![t] = o.it]
              /\ hist' = [hist EXCEPT ![t] = Record(@, "next_back", o)]
              /\ pair' = [pair EXCEPT ![t] =
                            Follow(@, "next_back", o.ret, ArgsLen(o.it))]
    /\ UNCHANGED <<darwinVars, dbg, argvLen,
                   storeVars, LOCK, rt, pc, tmp, began, refs, rhist>>

\* args.next_back()
ArgsNextBack(t) ==
    /\ pc[t] = "idle"
    /\ args[t] # NoArgs
    /\ refs[t] = NoRefs
    /\ \E o \in ArgsNextBackOutcomes(args[t]) :
         /\ args' = [args EXCEPT ![t] = o.it]
         /\ hist' = [hist EXCEPT ![t] = Record(@, "next_back", o)]
         /\ pair' = [pair EXCEPT ![t] = Follow(@, "next_back", o.ret, ArgsLen(o.it))]
    /\ UNCHANGED <<darwinVars, dbg, argvLen,
                   storeVars, LOCK, rt, pc, tmp, began, refs, rhist>>

\* args.as_refs(): a new ArgsRefs that borrows the Args (any earlier one is
\* dropped).
AsRefs(t) ==
    /\ pc[t] = "idle"
    /\ args[t] # NoArgs
    /\ refs' = [refs EXCEPT ![t] = AsRefsOf(args[t])]
    /\ rhist' = [rhist EXCEPT ![t] = FreshHist(AsRefsOf(args[t]), "none")]
    /\ pair' = [pair EXCEPT ![t] =
                  [on |-> TRUE,
                   r  |-> <<<<"as_refs", None, RefsLen(AsRefsOf(args[t]))>>>>,
                   a  |-> <<<<"as_refs", None, ArgsLen(args[t])>>>>]]
    /\ UNCHANGED <<darwinVars, dbg, argvLen,
                   storeVars, LOCK, rt, pc, tmp, began, args, hist>>

\* refs.next()
RefsNext(t) ==
    /\ pc[t] = "idle"
    /\ refs[t] # NoRefs
    /\ \E o \in RefsNextOutcomes(refs[t]) :
         /\ refs' = [refs EXCEPT ![t] = o.it]
         /\ rhist' = [rhist EXCEPT ![t] = Record(@, "next", o)]
         /\ pair' = [pair EXCEPT ![t] =
                       Lead(@, "next", RetBytes(o.ret), RefsLen(o.it))]
    /\ UNCHANGED <<darwinVars, dbg, argvLen,
                   storeVars, LOCK, rt, pc, tmp, began, args, hist>>

\* refs.next_back()
RefsNextBack(t) ==
    /\ pc[t] = "idle"
    /\ refs[t] # NoRefs
    /\ \E o \in RefsNextBackOutcomes(refs[t]) :
         /\ refs' = [refs EXCEPT ![t] = o.it]
         /\ rhist' = [rhist EXCEPT ![t] = Record(@, "next_back", o)]
         /\ pair' = [pair EXCEPT ![t] =
                       Lead(@, "next_back", RetBytes(o.ret), RefsLen(o.it))]
    /\ UNCHANGED <<darwinVars, dbg, argvLen,
                   storeVars, LOCK, rt, pc, tmp, began, args, hist>>

\* The ArgsRefs goes out of scope; its borrow of the Args ends.
RefsDrop(t) ==
    /\ pc[t] = "idle"
    /\ refs[t] # NoRefs
    /\ refs' = [refs EXCEPT ![t] = NoRefs]
    /\ rhist' = [rhist EXCEPT ![t] = NoHist]
    /\ UNCHANGED <<darwinVars, dbg, argvLen,
                   storeVars, LOCK, rt, pc, tmp, began, args, hist, pair>>

\* args.inner_debug() that collects from the Args itself and leaves it empty.
InnerDebugDrains(t) ==
    /\ pc[t] = "idle"
    /\ args[t] # NoArgs
    /\ \E v \in Collect(AsRefsOf(args[t])) :
          dbg' = [dbg EXCEPT ![t] =
                    [it |-> args[t], snap |-> hist[t].snap,
                     nfwd |-> Len(hist[t].fwd), nbwd |-> Len(hist[t].bwd),
                     vec |-> v]]
    /\ args' = [args EXCEPT ![t] = [argc |-> 0, argv |-> @.argv + @.argc]]
    /\ UNCHANGED <<darwinVars, argvLen, storeVars, LOCK, rt, pc, tmp, began,
                   refs, hist, rhist, pair>>

\* args.inner_debug(): takes &self, so it may run while an ArgsRefs is alive.
InnerDebug(t) ==
    /\ pc[t] = "idle"
    /\ args[t] # NoArgs
    /\ \E v \in Collect(AsRefsOf(args[t])) :
          dbg' = [dbg EXCEPT ![t] =
                    [it |-> args[t], snap |-> hist[t].snap,
                     nfwd |-> Len(hist[t].fwd), nbwd |-> Len(hist[t].bwd),
                     vec |-> v]]
    /\ UNCHANGED <<darwinVars, argvLen, storeVars, LOCK, rt, pc, tmp, began,
                   iterVars>>

(* ----------------------- the macos / ios backend ----------------------- *)

\* The C strings the process can have been started with, as they lie in
\* memory: "a", "e" with an acute accent (two bytes of UTF-8), a lone 0xFF, a
\* lead byte with nothing after it, and "b" with more bytes after its NUL.
TextChoices ==
    {<<97, NUL>>, <<195, 169, NUL>>, <<255, NUL>>, <<195, NUL>>,
     <<98, NUL, 99, NUL>>}

\* CStr::from_ptr(s).to_bytes(): the bytes before the first NUL.
RECURSIVE ToBytesFrom(_, _)
ToBytesFrom(s, k) ==
    IF s[k] = NUL THEN <<>> ELSE <<s[k]>> \o ToBytesFrom(s, k + 1)

ToBytes(s) == ToBytesFrom(s, 1)

\* str::from_utf8(b).is_ok(): b is a sequence of well-formed UTF-8 encodings.
Utf8Width(c) ==
    IF c < 128 THEN 1
    ELSE IF c >= 194 /\ c <= 223 THEN 2
    ELSE IF c >= 224 /\ c <= 239 THEN 3
    ELSE IF c >= 240 /\ c <= 244 THEN 4
    ELSE 0

Utf8Second(c, x) ==
    CASE c = 224 -> x >= 160 /\ x <= 191
      [] c = 237 -> x >= 128 /\ x <= 159
      [] c = 240 -> x >= 144 /\ x <= 191
      [] c = 244 -> x >= 128 /\ x <= 143
      [] OTHER   -> x >= 128 /\ x <= 191

RECURSIVE Utf8From(_, _)
Utf8From(b, k) ==
    IF k > Len(b) THEN TRUE
    ELSE LET w == Utf8Width(b[k])
         IN  /\ w # 0
             /\ k + w - 1 <= Len(b)
             /\ w >= 2 => Utf8Second(b[k], b[k + 1])
             /\ \A j \in (k + 2)..(k + w - 1) : b[j] >= 128 /\ b[j] <= 191
             /\ Utf8From(b, k + w)

Utf8Valid(b) == Utf8From(b, 1)

\* A cleanup that wipes the process's argument strings.
DarwinCleanupClears ==
    /\ target # "linux"
    /\ Len(calls) < MaxCalls
    /\ calls' = Append(calls, "cleanup")
    /\ procArgs' = [k \in 1..Len(procArgs) |-> <<NUL>>]
    /\ UNCHANGED <<target, dpc, loc, msgs, out, dbg, argvLen, storeVars, LOCK,
                   rt, pc, tmp, began, iterVars>>

\* pub unsafe fn init(_argc, _argv) {}
DarwinInit ==
    /\ target # "linux"
    /\ Len(calls) < MaxCalls
    /\ \E _argc \in 0..MaxArgc, _argv \in {NULL, ArgvBase} :
          calls' = Append(calls, "init")
    /\ UNCHANGED <<target, procArgs, dpc, loc, msgs, out, dbg, argvLen,
                   storeVars, LOCK, rt, pc, tmp, began, iterVars>>

\* pub fn cleanup() {}
DarwinCleanup ==
    /\ target # "linux"
    /\ Len(calls) < MaxCalls
    /\ calls' = Append(calls, "cleanup")
    /\ UNCHANGED <<target, procArgs, dpc, loc, msgs, out, dbg, argvLen,
                   storeVars, LOCK, rt, pc, tmp, began, iterVars>>

\* macos: let (argc, argv) = (*_NSGetArgc() as isize, *_NSGetArgv() ...);
MacArgsCall ==
    /\ target = "macos"
    /\ dpc = "idle"
    /\ loc' = [cnt |-> Len(procArgs), i |-> 0, res |-> <<>>]
    /\ dpc' = "map"
    /\ out' = NoOutcome
    /\ UNCHANGED <<target, procArgs, calls, msgs, dbg, argvLen, storeVars,
                   LOCK, rt, pc, tmp, began, iterVars>>

\* macos: one element of (0..argc).map(|i| ...).collect().
MacMap ==
    /\ dpc = "map"
    /\ loc.i < loc.cnt
    /\ loc' = [loc EXCEPT !.res = Append(@, ToBytes(procArgs[loc.i + 1])),
                          !.i = @ + 1]
    /\ UNCHANGED <<target, procArgs, calls, dpc, msgs, out, dbg, argvLen,
                   storeVars, LOCK, rt, pc, tmp, began, iterVars>>

\* macos: Args { iter: vec.into_iter(), .. }
MacReturn ==
    /\ dpc = "map"
    /\ ~(loc.i < loc.cnt)
    /\ out' = [kind |-> "Args", vec |-> loc.res, at |-> -1, after |-> calls]
    /\ loc' = NoLocals
    /\ dpc' = "idle"
    /\ UNCHANGED <<target, procArgs, calls, msgs, dbg, argvLen, storeVars,
                   LOCK, rt, pc, tmp, began, iterVars>>

\* ios: let mut res = Vec::new(); the selectors and the class are looked up.
IosArgsCall ==
    /\ target = "ios"
    /\ dpc = "idle"
    /\ loc' = NoLocals
    /\ msgs' = <<>>
    /\ out' = NoOutcome
    /\ dpc' = "processInfo"
    /\ UNCHANGED <<target, procArgs, calls, dbg, argvLen, storeVars, LOCK, rt,
                   pc, tmp, began, iterVars>>

\* ios: let info = objc_msgSend(klass, process_info_sel);
IosProcessInfo ==
    /\ dpc = "processInfo"
    /\ msgs' = Append(msgs, <<"processInfo", -1>>)
    /\ dpc' = "arguments"
    /\ UNCHANGED <<target, procArgs, calls, loc, out, dbg, argvLen, storeVars,
                   LOCK, rt, pc, tmp, began, iterVars>>

\* ios: let args = objc_msgSend(info, arguments_sel);
IosArguments ==
    /\ dpc = "arguments"
    /\ msgs' = Append(msgs, <<"arguments", -1>>)
    /\ dpc' = "count"
    /\ UNCHANGED <<target, procArgs, calls, loc, out, dbg, argvLen, storeVars,
                   LOCK, rt, pc, tmp, began, iterVars>>

\* ios: let cnt: usize = mem::transmute(objc_msgSend(args, count_sel));
IosCount ==
    /\ dpc = "count"
    /\ msgs' = Append(msgs, <<"count", -1>>)
    /\ loc' = [loc EXCEPT !.cnt = Len(procArgs), !.i = 0]
    /\ dpc' = "loop"
    /\ UNCHANGED <<target, procArgs, calls, out, dbg, argvLen, storeVars,
                   LOCK, rt, pc, tmp, began, iterVars>>

\* An objectAtIndex: that walks the collection from its last element.
IosObjectAtReversed ==
    /\ dpc = "loop"
    /\ loc.i < loc.cnt
    /\ msgs' = Append(msgs, <<"objectAtIndex:", loc.cnt - 1 - loc.i>>)
    /\ dpc' = "utf8"
    /\ UNCHANGED <<target, procArgs, calls, loc, out, dbg, argvLen, storeVars,
                   LOCK, rt, pc, tmp, began, iterVars>>

\* ios: let tmp = objc_msgSend_ul(args, object_at_sel, i as libc::c_ulong);
IosObjectAt ==
    /\ dpc = "loop"
    /\ loc.i < loc.cnt
    /\ msgs' = Append(msgs, <<"objectAtIndex:", loc.i>>)
    /\ dpc' = "utf8"
    /\ UNCHANGED <<target, procArgs, calls, loc, out, dbg, argvLen, storeVars,
                   LOCK, rt, pc, tmp, began, iterVars>>

\* The element tmp holds: the index of the last objectAtIndex: sent.
IosTmp == msgs[Len(msgs)][2]

\* A conversion that replaces text that is not UTF-8 by U+FFFD and goes on.
IosUtf8Lossy ==
    /\ dpc = "utf8"
    /\ msgs' = Append(msgs, <<"UTF8String", IosTmp>>)
    /\ LET bytes == ToBytes(procArgs[IosTmp + 1])
           text  == IF Utf8Valid(bytes) THEN bytes ELSE <<239, 191, 189>>
       IN  loc' = [loc EXCEPT !.res = Append(@, text), !.i = @ + 1]
    /\ dpc' = "loop"
    /\ out' = out
    /\ UNCHANGED <<target, procArgs, calls, dbg, argvLen, storeVars, LOCK, rt,
                   pc, tmp, began, iterVars>>

\* ios: utf_c_str = objc_msgSend(tmp, utf8_sel); bytes = CStr::from_ptr(..)
\* .to_bytes(); res.push(OsString::from(str::from_utf8(bytes).unwrap())).
\* unwrap() panics on text that is not UTF-8: args() unwinds, res is dropped.
IosUtf8 ==
    /\ dpc = "utf8"
    /\ msgs' = Append(msgs, <<"UTF8String", IosTmp>>)
    /\ LET bytes == ToBytes(procArgs[IosTmp + 1])
       IN  IF Utf8Valid(bytes)
           THEN /\ loc' = [loc EXCEPT !.res = Append(@, bytes), !.i = @ + 1]
                /\ dpc' = "loop"
                /\ out' = out
           ELSE /\ loc' = NoLocals
                /\ dpc' = "idle"
                /\ out' = [kind |-> "panic", vec |-> <<>>, at |-> loc.i,
                           after |-> calls]
    /\ UNCHANGED <<target, procArgs, calls, dbg, argvLen, storeVars, LOCK, rt,
                   pc, tmp, began, iterVars>>

\* ios: Args { iter: res.into_iter(), .. }
IosReturn ==
    /\ dpc = "loop"
    /\ ~(loc.i < loc.cnt)
    /\ out' = [kind |-> "Args", vec |-> loc.res, at |-> -1, after |-> calls]
    /\ loc' = NoLocals
    /\ dpc' = "idle"
    /\ UNCHANGED <<target, procArgs, calls, msgs, dbg, argvLen, storeVars,
                   LOCK, rt, pc, tmp, began, iterVars>>

(* --------------------------- specifications ---------------------------- *)

\* The module is compiled for a target that uses the captured-global backend:
\* nothing of the macos / ios backend exists.
NotDarwin ==
    /\ target = "linux"
    /\ procArgs = <<>>
    /\ calls = <<>>
    /\ dpc = "idle"
    /\ loc = NoLocals
    /\ msgs = <<>>
    /\ out = NoOutcome

Idle ==
    /\ dbg = [t \in Readers |-> NoDebug]
    /\ pc = [t \in Readers |-> "idle"]
    /\ tmp = [t \in Readers |-> NoArgs]
    /\ args = [t \in Readers |-> NoArgs]
    /\ refs = [t \in Readers |-> NoRefs]
    /\ began = [t \in Readers |-> "none"]
    /\ hist = [t \in Readers |-> NoHist]
    /\ rhist = [t \in Readers |-> NoHist]
    /\ pair = [t \in Readers |-> NoPair]

\* Process start: the loader has laid out the arguments, the store holds its
\* static initialisers, no thread is inside any call.
Init ==
    /\ argvLen \in 0..MaxArgc
    /\ ARGC = 0
    /\ ARGV = NULL
    /\ LOCK = {}
    /\ rt = [pc |-> "start", argc |-> 0, argv |-> NULL]
    /\ Idle
    /\ NotDarwin

\* init and cleanup, each once, on the main thread.
Lifecycle ==
    \/ InitCall \/ InitLock \/ InitSetArgc \/ InitSetArgv \/ InitReturn
    \/ CleanupCall \/ CleanupLock \/ CleanupSetArgc \/ CleanupSetArgv
    \/ CleanupReturn

\* The store's lifecycle on the main thread, args() on any number of threads
\* at any time.
Next ==
    \/ Lifecycle
    \/ \E t \in Readers :
         ArgsCall(t) \/ ArgsLock(t) \/ ArgsReadArgc(t) \/ ArgsReadArgv(t)
           \/ ArgsReturn(t)

Spec == Init /\ [][Next]_vars

\* The state in which init has returned and cleanup has not been called.
InitRunning ==
    /\ argvLen \in 0..MaxArgc
    /\ ARGC = argvLen
    /\ ARGV = ArgvBase
    /\ LOCK = {}
    /\ rt = [pc |-> "running", argc |-> argvLen, argv |-> ArgvBase]
    /\ Idle
    /\ NotDarwin

\* Between init and cleanup: every thread calls args() and drains its Args.
NextDrain ==
    \E t \in Readers :
       \/ ArgsCall(t) \/ ArgsLock(t) \/ ArgsReadArgc(t) \/ ArgsReadArgv(t)
       \/ ArgsReturn(t)
       \/ ArgsNext(t) \/ ArgsNextBack(t)

SpecDrain == InitRunning /\ [][NextDrain]_vars

\* The whole lifecycle with one thread that uses every operation of Args and
\* ArgsRefs.
IterThread == CHOOSE t \in Readers : \A u \in Readers : t <= u

NextIter ==
    \/ Lifecycle
    \/ LET t == IterThread
       IN  \/ ArgsCall(t) \/ ArgsLock(t) \/ ArgsReadArgc(t) \/ ArgsReadArgv(t)
           \/ ArgsReturn(t)
           \/ ArgsNext(t) \/ ArgsNextBack(t)
           \/ AsRefs(t) \/ RefsNext(t) \/ RefsNextBack(t) \/ RefsDrop(t)

SpecIter == Init /\ [][NextIter]_vars

\* Between init and cleanup: one thread with every operation of Args and
\* ArgsRefs, inner_debug() among them.
NextDebug ==
    LET t == IterThread
    IN  \/ ArgsCall(t) \/ ArgsLock(t) \/ ArgsReadArgc(t) \/ ArgsReadArgv(t)
        \/ ArgsReturn(t)
        \/ ArgsNext(t) \/ ArgsNextBack(t)
        \/ AsRefs(t) \/ RefsNext(t) \/ RefsNextBack(t) \/ RefsDrop(t)
        \/ InnerDebug(t)

SpecDebug == InitRunning /\ [][NextDebug]_vars

\* A process on macos or ios, started with up to MaxArgc arguments: the store
\* of the captured-global backend does not exist there.
InitDarwin ==
    /\ target \in {"macos", "ios"}
    /\ procArgs \in UNION {[1..n -> TextChoices] : n \in 0..MaxArgc}
    /\ calls = <<>>
    /\ dpc = "idle"
    /\ loc = NoLocals
    /\ msgs = <<>>
    /\ out = NoOutcome
    /\ argvLen = 0
    /\ ARGC = 0
    /\ ARGV = NULL
    /\ LOCK = {}
    /\ rt = [pc |-> "start", argc |-> 0, argv |-> NULL]
    /\ Idle

\* init and cleanup in any order and number, args() at any time.
NextDarwin ==
    \/ DarwinInit \/ DarwinCleanup
    \/ MacArgsCall \/ MacMap \/ MacReturn
    \/ IosArgsCall \/ IosProcessInfo \/ IosArguments \/ IosCount
    \/ IosObjectAt \/ IosUtf8 \/ IosReturn

SpecDarwin == InitDarwin /\ [][NextDarwin]_vars

(* ------------------------------ claims --------------------------------- *)

\* Number of elements an Args has yielded so far, from either end.
Yielded(h) == Len(h.fwd) + Len(h.bwd)

\* Every outcome of next() and of next_back() on the Args it.
BothOutcomes(it) == ArgsNextOutcomes(it) \cup ArgsNextBackOutcomes(it)

\* C1: an Args returned by an args() call made while init's vector of N
\* arguments is recorded has len() = N when fresh; each of its first N calls,
\* next() or next_back() in any mix, returns an element; after N calls it is
\* exhausted and any further call of either kind returns end-of-sequence.
C1_LenAndExhaustion ==
    \A t \in Readers :
       (args[t] # NoArgs /\ hist[t].era = "window") =>
          /\ hist[t].last = NoCall => ArgsLen(args[t]) = AsUsize(argvLen)
          /\ Yielded(hist[t]) <= argvLen
          /\ hist[t].last[2] = None => Yielded(hist[t]) = argvLen
          /\ Yielded(hist[t]) = argvLen =>
                /\ ArgsLen(args[t]) = AsUsize(0)
                /\ \A o \in BothOutcomes(args[t]) : o.ret = None

\* C1 witness: a vector of MaxArgc arguments drained from both ends, and the
\* call after the last element has returned end-of-sequence.
C1_Witness ==
    \E t \in Readers :
       /\ args[t] # NoArgs /\ hist[t].era = "window" /\ argvLen = MaxArgc
       /\ Len(hist[t].fwd) > 0 /\ Len(hist[t].bwd) > 0
       /\ Yielded(hist[t]) = argvLen
       /\ hist[t].last = <<"next", None>>

\* C2: under any interleaving of next() and next_back() on one Args over a
\* snapshot of N elements, the i-th successful next() reads original index
\* i - 1 and returns that argument, the j-th successful next_back() reads
\* original index N - j and returns that argument; no index is read twice and,
\* once end-of-sequence is reported, none has been skipped.
C2_PositionalOrder ==
    \A t \in Readers :
       args[t] # NoArgs =>
          LET h    == hist[t]
              n    == h.snap[1]
              base == h.snap[2]
              read == {h.fwd[i][1] : i \in 1..Len(h.fwd)}
                         \cup {h.bwd[j][1] : j \in 1..Len(h.bwd)}
          IN  /\ \A i \in 1..Len(h.fwd) :
                    h.fwd[i] = <<base + (i - 1), ArgText(i - 1)>>
              /\ \A j \in 1..Len(h.bwd) :
                    h.bwd[j] = <<base + (n - j), ArgText(n - j)>>
              /\ Yielded(h) > 0 => base = ArgvBase
              /\ Cardinality(read) = Yielded(h)
              /\ h.last[2] = None => read = {base + k : k \in 0..(n - 1)}

\* C2 witness: next() k times then next_back() N - k times, both at least once,
\* has yielded all MaxArgc elements.
C2_Witness ==
    \E t \in Readers :
       /\ args[t] # NoArgs /\ hist[t].snap = <<MaxArgc, ArgvBase>>
       /\ Len(hist[t].fwd) >= 1 /\ Len(hist[t].bwd) >= 1
       /\ Yielded(hist[t]) = MaxArgc
       /\ hist[t].last[1] = "next_back" /\ hist[t].last[2] # None

\* The pairs a reader may see: the static initialisers (which cleanup also
\* restores) and, once init has been called, the pair passed to it.
WrittenPairs ==
    {<<0, NULL>>} \cup (IF rt.pc = "start" THEN {} ELSE {<<rt.argc, rt.argv>>})

\* C3: every Args returned by args(), whatever init, cleanup and other args()
\* calls run concurrently, holds either (0, null) or exactly the (count, base)
\* passed to init, never the count of one write with the base of another.
C3_NoTornPair ==
    \A t \in Readers :
       args[t] # NoArgs =>
          /\ <<args[t].argc, args[t].argv>> \in WrittenPairs
          /\ hist[t].snap = <<args[t].argc, args[t].argv>>

\* C3 witness: two args() calls that overlapped init or cleanup, one returned
\* the pair of init and one the cleared pair.
C3_Witness ==
    \E t, u \in Readers :
       /\ args[t] # NoArgs /\ hist[t].era = "mixed"
       /\ hist[t].snap = <<MaxArgc, ArgvBase>>
       /\ args[u] # NoArgs /\ hist[u].era = "mixed"
       /\ hist[u].snap = <<0, NULL>>
       /\ rt.pc = "done"

\* A step of thread t on its own Args: t is outside args() before and after,
\* and the history of its Args changes.
ArgsStep(t) ==
    /\ pc[t] = "idle" /\ pc'[t] = "idle"
    /\ args[t] # NoArgs
    /\ hist'[t].last # NoCall
    /\ hist'[t] # hist[t]

\* In every state between init and cleanup, each thread's Args is a snapshot
\* of all N arguments and what it has yielded from the front is the arguments
\* in positional order.
C4_EachInOrder ==
    \A t \in Readers :
       args[t] # NoArgs =>
          /\ hist[t].snap = <<argvLen, ArgvBase>>
          /\ \A i \in 1..Len(hist[t].fwd) :
                hist[t].fwd[i] = <<ArgvBase + (i - 1), ArgText(i - 1)>>
          /\ (hist[t].bwd = <<>> /\ hist[t].last[2] = None) =>
                Len(hist[t].fwd) = argvLen

\* C4: after one init with N elements, threads that call args() concurrently
\* and drain their iterators each get a snapshot of length N and see all N
\* elements in positional order, and a step of one thread's iterator changes
\* neither the count, the cursor nor the yielded values of another thread's.
C4_IndependentSnapshots ==
    /\ []C4_EachInOrder
    /\ [][\A t \in Readers :
             ArgsStep(t) =>
                \A u \in Readers \ {t} :
                   args'[u] = args[u] /\ hist'[u] = hist[u]]_vars

\* C4 witness: every thread has drained its own Args of MaxArgc elements by
\* next() alone.
C4_Witness ==
    /\ argvLen = MaxArgc
    /\ \A t \in Readers :
          /\ args[t] # NoArgs
          /\ Len(hist[t].fwd) = MaxArgc
          /\ hist[t].last = <<"next", None>>

\* C5: the same sequence of next() and next_back() calls made on an ArgsRefs
\* and on the Args it was taken from returns, call by call, the same bytes (or
\* end-of-sequence in both) and leaves the same len(); len() also agrees right
\* after as_refs().
C5_OwnedEqualsBorrowed ==
    \A t \in Readers :
       pair[t].on =>
          /\ Len(pair[t].a) <= Len(pair[t].r)
          /\ \A i \in 1..Len(pair[t].a) : pair[t].a[i] = pair[t].r[i]

\* C5 witness: as_refs() on a fresh Args of MaxArgc elements, then next(),
\* next_back() until end-of-sequence on the ArgsRefs and again on the Args.
C5_Witness ==
    \E t \in Readers :
       /\ pair[t].on
       /\ hist[t].snap = <<MaxArgc, ArgvBase>>
       /\ Len(pair[t].a) = Len(pair[t].r)
       /\ Len(pair[t].a) = MaxTrace
       /\ pair[t].a[1] = <<"as_refs", None, AsUsize(MaxArgc)>>
       /\ pair[t].a[2][1] = "next"
       /\ pair[t].a[3][1] = "next_back"
       /\ pair[t].a[MaxTrace][2] = None

\* A step of thread t on its ArgsRefs (not the as_refs() that creates it nor
\* the drop that ends it).
RefsStep(t) ==
    /\ refs[t] # NoRefs
    /\ rhist'[t].last # NoCall
    /\ rhist'[t] # rhist[t]

\* No call on an exhausted iterator can return an element or move it.
C6_ExhaustedStays ==
    \A t \in Readers :
       /\ (args[t] # NoArgs /\ args[t].argc = 0) =>
             \A o \in BothOutcomes(args[t]) : o.ret = None /\ o.it = args[t]
       /\ (refs[t] # NoRefs /\ refs[t].argc = 0) =>
             \A o \in RefsNextOutcomes(refs[t]) \cup RefsNextBackOutcomes(refs[t]) :
                o.ret = None /\ o.it = refs[t]

\* C6: once an iterator is exhausted (count 0), every further next() or
\* next_back(), however often repeated, returns end-of-sequence and leaves the
\* iterator's count and cursor as they were; nothing it yielded changes.
C6_ExhaustionIdempotent ==
    /\ []C6_ExhaustedStays
    /\ [][\A t \in Readers :
             /\ (ArgsStep(t) /\ args[t].argc = 0) =>
                   /\ hist'[t].last[2] = None
                   /\ args'[t] = args[t]
                   /\ hist'[t].fwd = hist[t].fwd /\ hist'[t].bwd = hist[t].bwd
             /\ (RefsStep(t) /\ refs[t].argc = 0) =>
                   /\ rhist'[t].last[2] = None
                   /\ refs'[t] = refs[t]
                   /\ rhist'[t].fwd = rhist[t].fwd /\ rhist'[t].bwd = rhist[t].bwd]_vars

\* C6 witness: an Args of MaxArgc elements drained by next(), on which
\* next_back() has then returned end-of-sequence.
C6_Witness ==
    \E t \in Readers :
       /\ args[t] # NoArgs /\ args[t].argc = 0
       /\ hist[t].snap[1] = MaxArgc
       /\ Len(hist[t].fwd) = MaxArgc
       /\ hist[t].last = <<"next_back", None>>

\* The count of an iterator is its snapshot's count less what it has yielded.
C7_CountInRange ==
    \A t \in Readers :
       /\ args[t] # NoArgs =>
             /\ 0 <= args[t].argc /\ args[t].argc <= hist[t].snap[1]
             /\ args[t].argc = hist[t].snap[1] - Yielded(hist[t])
       /\ refs[t] # NoRefs =>
             /\ 0 <= refs[t].argc /\ refs[t].argc <= rhist[t].snap[1]
             /\ refs[t].argc = rhist[t].snap[1] - Yielded(rhist[t])
             /\ rhist[t].snap[1] <= hist[t].snap[1]

\* C7: the count of an Args or ArgsRefs stays between 0 and the length of the
\* snapshot it was built from; a call that yields an element lowers it by
\* exactly one, a call that returns end-of-sequence leaves it alone, and
\* nothing raises it.
C7_RemainingCount ==
    /\ []C7_CountInRange
    /\ [][\A t \in Readers :
             /\ ArgsStep(t) =>
                   args'[t].argc =
                      IF hist'[t].last[2] = None THEN args[t].argc
                                                 ELSE args[t].argc - 1
             /\ RefsStep(t) =>
                   refs'[t].argc =
                      IF rhist'[t].last[2] = None THEN refs[t].argc
                                                  ELSE refs[t].argc - 1]_vars

\* C7 witness: an Args of MaxArgc elements that has yielded one, and an
\* ArgsRefs taken from it then that has yielded all the rest.
C7_Witness ==
    \E t \in Readers :
       /\ args[t] # NoArgs /\ hist[t].snap[1] = MaxArgc
       /\ args[t].argc = MaxArgc - 1
       /\ refs[t] # NoRefs /\ rhist[t].snap[1] = MaxArgc - 1
       /\ refs[t].argc = 0
       /\ rhist[t].last[2] # None /\ rhist[t].last # NoCall

\* C8: at every point of a traversal of an Args or an ArgsRefs, size_hint()
\* is (r, Some(r)) and len() is r, where r is the snapshot's count less the
\* number of successful next() and next_back() calls.
C8_ExactSize ==
    \A t \in Readers :
       /\ args[t] # NoArgs =>
             LET r == AsUsize(hist[t].snap[1] - Yielded(hist[t]))
             IN  /\ ArgsSizeHint(args[t]) = <<r, Some(r)>>
                 /\ ArgsLen(args[t]) = r
       /\ refs[t] # NoRefs =>
             LET r == AsUsize(rhist[t].snap[1] - Yielded(rhist[t]))
             IN  /\ RefsSizeHint(refs[t]) = <<r, Some(r)>>
                 /\ RefsLen(refs[t]) = r

\* C8 witness: in the middle of both traversals, an Args that has yielded one
\* element from the back and its ArgsRefs that has yielded one from the front.
C8_Witness ==
    \E t \in Readers :
       /\ args[t] # NoArgs /\ hist[t].snap[1] = MaxArgc
       /\ Len(hist[t].bwd) = 1 /\ Len(hist[t].fwd) = 0
       /\ refs[t] # NoRefs
       /\ Len(rhist[t].fwd) = 1 /\ Len(rhist[t].bwd) = 0

\* C9: once cleanup, called after init, has returned, the store is (0, null)
\* and every args() call that begins from then on returns an Args of length 0
\* on which next() and next_back() return end-of-sequence.
C9_EmptyAfterCleanup ==
    /\ rt.pc = "done" => (ARGC = 0 /\ ARGV = NULL)
    /\ \A t \in Readers :
          (args[t] # NoArgs /\ hist[t].era = "post") =>
             /\ args[t] = [argc |-> 0, argv |-> NULL]
             /\ ArgsLen(args[t]) = AsUsize(0)
             /\ \A o \in BothOutcomes(args[t]) : o.ret = None

\* C9 witness: init recorded MaxArgc arguments, cleanup returned, and an args()
\* call that began afterwards has returned.
C9_Witness ==
    \E t \in Readers :
       /\ rt.pc = "done" /\ rt.argc = MaxArgc
       /\ args[t] # NoArgs /\ hist[t].era = "post"

\* The store and the snapshots in each phase of the lifecycle.
C10_Phases ==
    /\ rt.pc \in {"start", "init_lock"} => (ARGC = 0 /\ ARGV = NULL)
    /\ rt.pc \in {"running", "cleanup_lock"} =>
          (ARGC = rt.argc /\ ARGV = rt.argv)
    /\ rt.pc # "start" => (rt.argc = argvLen /\ rt.argv = ArgvBase)
    /\ \A t \in Readers :
          args[t] # NoArgs =>
             /\ hist[t].era = "pre" =>
                   (args[t] = [argc |-> 0, argv |-> NULL]
                      /\ ArgsLen(args[t]) = AsUsize(0))
             /\ hist[t].era = "window" =>
                   args[t] = [argc |-> rt.argc, argv |-> rt.argv]

\* C10: the store holds (0, null) before init, so an args() call made before
\* init returns an Args of length 0; every args() call made after init has
\* returned and before cleanup starts returns exactly the count and base given
\* to init; and the store changes only in init's two writes and in cleanup's.
C10_Lifecycle ==
    /\ []C10_Phases
    /\ [][<<ARGC, ARGV>>' # <<ARGC, ARGV>> =>
             /\ rt.pc \in {"init_argc", "init_argv", "cleanup_argc", "cleanup_argv"}
             /\ rt'.pc # rt.pc
             /\ MainThread \in LOCK]_vars

\* C10 witness: one thread called args() before init and another between init
\* (of MaxArgc arguments) and cleanup, which has since returned.
C10_Witness ==
    \E t, u \in Readers :
       /\ args[t] # NoArgs /\ hist[t].era = "pre"
       /\ args[u] # NoArgs /\ hist[u].era = "window"
       /\ hist[u].snap = <<MaxArgc, ArgvBase>>
       /\ rt.pc = "done"

\* The threads inside a critical section: between taking the lock and
\* returning from init, cleanup or args().
InCritical ==
    {t \in Readers : pc[t] \in {"args_argc", "args_argv", "args_ret"}}
       \cup (IF rt.pc \in {"init_argc", "init_argv", "init_ret",
                           "cleanup_argc", "cleanup_argv", "cleanup_ret"}
             THEN {MainThread} ELSE {})

\* At most one thread holds LOCK, and it is the one inside a critical section;
\* a thread about to call lock() does not hold it.
C13_OneHolder ==
    /\ Cardinality(LOCK) <= 1
    /\ Cardinality(InCritical) <= 1
    /\ InCritical = LOCK
    /\ \A t \in Readers : pc[t] = "args_lock" => t \notin LOCK
    /\ rt.pc \in {"init_lock", "cleanup_lock"} => MainThread \notin LOCK

\* C13: one lock serializes init, cleanup and args(): at most one thread is
\* inside a critical section at a time, every write of ARGC/ARGV and every read
\* of them by args() is made by the thread that holds the lock, and no thread
\* calls lock() while it already holds it.
C13_LockSerializes ==
    /\ []C13_OneHolder
    /\ [][/\ <<ARGC, ARGV>>' # <<ARGC, ARGV>> => LOCK = {MainThread}
          /\ \A t \in Readers :
                (pc[t] \in {"args_argc", "args_argv"} /\ pc'[t] # pc[t]) =>
                   /\ LOCK = {t}
                   /\ tmp'[t] = IF pc[t] = "args_argc"
                                THEN [tmp[t] EXCEPT !.argc = ARGC]
                                ELSE [tmp[t] EXCEPT !.argv = ARGV]]_vars

\* C13 witness: one reader is reading the store inside its critical section
\* while cleanup and another reader both wait in lock().
C13_Witness ==
    \E t, u \in Readers :
       /\ t # u
       /\ LOCK = {t} /\ pc[t] = "args_argv"
       /\ pc[u] = "args_lock"
       /\ rt.pc = "cleanup_lock"

\* The lifecycle and the readers of Spec under a scheduler that lets every
\* thread inside a call take its next step, and a mutex that does not pass
\* over a waiting thread for ever.
Fairness ==
    /\ SF_vars(InitLock)
    /\ SF_vars(CleanupLock)
    /\ WF_vars(InitSetArgc \/ InitSetArgv \/ InitReturn)
    /\ WF_vars(CleanupSetArgc \/ CleanupSetArgv \/ CleanupReturn)
    /\ \A t \in Readers :
          /\ SF_vars(ArgsLock(t))
          /\ WF_vars(ArgsReadArgc(t) \/ ArgsReadArgv(t) \/ ArgsReturn(t))

\* The process was started with MaxArgc arguments.
InitFull == Init /\ argvLen = MaxArgc

SpecFair == InitFull /\ [][Next]_vars /\ Fairness

\* C14: with the readers calling args() and the main thread calling init and
\* cleanup once each, every thread is again and again outside every call and
\* without the lock, so each call that has started takes the lock, returns and
\* releases it; a thread outside init, cleanup and args() never holds the lock,
\* and in no reachable state is every thread unable to step.
C14_CallsComplete ==
    /\ [](LOCK \subseteq InCritical)
    /\ [](ENABLED Next)
    /\ []<>(rt.pc \in {"start", "running", "done"} /\ MainThread \notin LOCK)
    /\ \A t \in Readers : []<>(pc[t] = "idle" /\ t \notin LOCK)

\* C14 witness: init and cleanup have both returned, every reader has had an
\* args() call return that overlapped one of them, and the lock is free.
C14_Witness ==
    /\ rt.pc = "done"
    /\ LOCK = {}
    /\ \A t \in Readers :
          pc[t] = "idle" /\ args[t] # NoArgs /\ hist[t].era = "mixed"

\* A step of thread t inside args(), from the call to the return.
SnapshotStep(t) == pc'[t] # pc[t]

\* C15: a step of args() leaves ARGC, ARGV and the argument vector as they
\* were and reads no argument slot; a next()/next_back() on one thread's Args
\* changes only that Args: the store, the lock, and every other thread's Args,
\* ArgsRefs and call in progress stay as they were.  So an args() that returns
\* between init and cleanup returns the full (N, base) pair with nothing read
\* yet, whatever was drained before, on this thread or another.
C15_OnlyOwnIterator ==
    [][\A t \in Readers :
          /\ SnapshotStep(t) =>
                /\ <<ARGC, ARGV, argvLen>>' = <<ARGC, ARGV, argvLen>>
                /\ \/ hist'[t] = hist[t]
                   \/ hist'[t].fwd = <<>> /\ hist'[t].bwd = <<>>
                /\ \A u \in Readers \ {t} :
                      <<args[u], hist[u], refs[u]>>'
                         = <<args[u], hist[u], refs[u]>>
          /\ ArgsStep(t) =>
                /\ <<ARGC, ARGV, argvLen, LOCK, rt, tmp, pc, refs>>'
                      = <<ARGC, ARGV, argvLen, LOCK, rt, tmp, pc, refs>>
                /\ \A u \in Readers \ {t} :
                      args'[u] = args[u] /\ hist'[u] = hist[u]
          /\ (pc[t] = "args_ret" /\ pc'[t] = "idle") =>
                /\ args'[t] = [argc |-> argvLen, argv |-> ArgvBase]
                /\ ArgsLen(args'[t]) = AsUsize(argvLen)]_vars

\* C15 witness: a thread that has drained its Args is about to return from a
\* second args() with the full count again, while another thread's Args is
\* partly consumed.
C15_Witness ==
    \E t, u \in Readers :
       /\ t # u
       /\ argvLen > 1
       /\ pc[t] = "args_ret" /\ tmp[t].argc = argvLen
       /\ args[t] # NoArgs /\ args[t].argc = 0
       /\ Len(hist[t].fwd) + Len(hist[t].bwd) = argvLen
       /\ args[u] # NoArgs /\ args[u].argc = argvLen - 1

\* A step of cleanup, from the call to the return.
CleanupStep ==
    /\ rt.pc \in {"running", "cleanup_lock", "cleanup_argc", "cleanup_argv",
                  "cleanup_ret"}
    /\ rt'.pc # rt.pc

\* cleanup can take its next step whatever iterators are alive: only the lock
\* makes it wait.
CleanupNotBlocked ==
    /\ rt.pc = "running" => ENABLED CleanupCall
    /\ (rt.pc = "cleanup_lock" /\ LOCK = {}) => ENABLED CleanupLock
    /\ rt.pc = "cleanup_argc" => ENABLED CleanupSetArgc
    /\ rt.pc = "cleanup_argv" => ENABLED CleanupSetArgv
    /\ rt.pc = "cleanup_ret" => ENABLED CleanupReturn

\* After cleanup an iterator that still has elements goes on yielding them:
\* next() finds count # 0 and reads the slot, nothing reports the cleared
\* store.
StaleNotDetected ==
    \A t \in Readers :
       (rt.pc = "done" /\ pc[t] = "idle") =>
          /\ (refs[t] # NoRefs /\ refs[t].argc > 0) =>
                /\ ENABLED RefsNext(t)
                /\ \A o \in RefsNextOutcomes(refs[t])
                           \cup RefsNextBackOutcomes(refs[t]) :
                      o.ret[1] = "Some"
          /\ (args[t] # NoArgs /\ args[t].argc > 0 /\ refs[t] = NoRefs) =>
                /\ ENABLED ArgsNext(t)
                /\ \A o \in BothOutcomes(args[t]) : o.ret[1] = "Some"

\* C16: no step of cleanup changes an Args or an ArgsRefs (or a thread's call
\* in progress), cleanup is never held up by a live iterator, and an iterator
\* that outlives cleanup keeps yielding from its old base with its old count.
C16_CleanupOnlyStore ==
    /\ [](CleanupNotBlocked /\ StaleNotDetected)
    /\ [][CleanupStep =>
             /\ <<args, refs, hist, rhist>>' = <<args, refs, hist, rhist>>
             /\ <<pc, tmp, argvLen>>' = <<pc, tmp, argvLen>>]_vars

\* C16 witness: cleanup has returned and the store is (0, null), while an Args
\* taken between init and cleanup still holds all N > 0 elements at the old
\* base and an ArgsRefs over it, already advanced once, has elements left.
C16_Witness ==
    \E t \in Readers :
       /\ rt.pc = "done" /\ ARGC = 0 /\ ARGV = NULL
       /\ args[t] = [argc |-> argvLen, argv |-> ArgvBase]
       /\ hist[t].era = "window"
       /\ refs[t] # NoRefs
       /\ refs[t].argc > 0 /\ refs[t].argc < argvLen
       /\ refs[t].argv = ArgvBase + 1

\* The slots of the argument vector an iterator has read so far.
ReadSlots(h) ==
    {h.fwd[i][1] : i \in 1..Len(h.fwd)} \cup {h.bwd[i][1] : i \in 1..Len(h.bwd)}

\* Every slot read lies inside the vector init recorded.
C19_ReadsInVector ==
    \A t \in Readers :
       \A a \in ReadSlots(hist[t]) \cup ReadSlots(rhist[t]) :
          /\ 0 <= a - ArgvBase
          /\ a - ArgvBase < argvLen

\* What one call on an iterator with count c and cursor p did, given the
\* history before (h) and after (g) it.
ReadAsCoded(c, p, h, g) ==
    LET op  == g.last[1]
        ret == g.last[2]
    IN  /\ (ret = None) <=> (c = 0)
        /\ c = 0 => (g.fwd = h.fwd /\ g.bwd = h.bwd)
        /\ (c # 0 /\ op = "next") =>
              /\ g.fwd = Append(h.fwd, <<p, ret[2]>>)
              /\ g.bwd = h.bwd
        /\ (c # 0 /\ op = "next_back") =>
              /\ g.bwd = Append(h.bwd, <<p + (c - 1), ret[2]>>)
              /\ g.fwd = h.fwd

\* C19: with a count N >= 0 recorded by init, every slot read by next() or
\* next_back() of an Args or an ArgsRefs, in any mix of the two, has an index
\* in [0, N); next() reads the slot under the cursor, and only when the count
\* is not 0; next_back() reads the slot at cursor + (count - 1); a call
\* returns end-of-sequence exactly when the count is 0, and then reads nothing.
C19_ReadsInBounds ==
    /\ []C19_ReadsInVector
    /\ [][\A t \in Readers :
             /\ ArgsStep(t) =>
                   ReadAsCoded(args[t].argc, args[t].argv, hist[t], hist'[t])
             /\ RefsStep(t) =>
                   ReadAsCoded(refs[t].argc, refs[t].argv, rhist[t],
                               rhist'[t])]_vars

\* C19 witness: an Args over MaxArgc elements has read the first and the last
\* slot of the vector, one from each end, and an ArgsRefs over what was left
\* has been told end-of-sequence by next() after next_back() read a slot.
C19_Witness ==
    \E t \in Readers :
       /\ argvLen = MaxArgc
       /\ args[t] # NoArgs
       /\ ArgvBase \in ReadSlots(hist[t])
       /\ (ArgvBase + MaxArgc - 1) \in ReadSlots(hist[t])
       /\ hist[t].fwd # <<>> /\ hist[t].bwd # <<>>
       /\ refs[t] # NoRefs
       /\ rhist[t].last = <<"next", None>>

\* The views of the slots first .. last of the vector at ArgvBase, in order.
SlotViews(first, last) ==
    [k \in 1..(last - first + 1) |-> CStrView(ArgAddr(first + k - 1))]

\* An as_refs() call of thread t: its ArgsRefs is new and nothing has been
\* called on it.
AsRefsStep(t) ==
    /\ refs'[t] # NoRefs
    /\ rhist'[t] # rhist[t]
    /\ rhist'[t].last = NoCall

\* An inner_debug() call of thread t.
InnerDebugStep(t) == dbg'[t] # dbg[t]

\* as_refs() and inner_debug() leave the Args, and what it has yielded, as
\* they were; the new ArgsRefs has the Args' cursor and count.
C17_ArgsKept ==
    \A t \in Readers :
       /\ AsRefsStep(t) =>
             /\ args'[t] = args[t] /\ hist'[t] = hist[t]
             /\ refs'[t] = [argc |-> args[t].argc, argv |-> args[t].argv]
             /\ RefsLen(refs'[t]) = ArgsLen(args[t])
       /\ InnerDebugStep(t) =>
             /\ args'[t] = args[t] /\ hist'[t] = hist[t]
             /\ refs'[t] = refs[t] /\ rhist'[t] = rhist[t]
             /\ dbg'[t].it = args[t]

\* C17 as stated: inner_debug() returns every element the Args has not yet
\* yielded from the front, those already yielded from the back included.
C17_DebugFromFront ==
    \A t \in Readers :
       dbg[t] # NoDebug =>
          dbg[t].vec = SlotViews(dbg[t].nfwd, dbg[t].snap[1] - 1)

\* C17: as_refs() and inner_debug() do not consume the Args; the ArgsRefs
\* from as_refs() starts at the Args' cursor with the Args' count; and
\* inner_debug() returns, in positional order, exactly the elements the Args
\* has not yet yielded from either end: all N when the Args is fresh.
C17_DebugRemaining ==
    /\ [](\A t \in Readers :
             dbg[t] # NoDebug =>
                /\ dbg[t].vec = SlotViews(dbg[t].nfwd,
                                          dbg[t].snap[1] - 1 - dbg[t].nbwd)
                /\ Len(dbg[t].vec) = dbg[t].it.argc
                /\ (dbg[t].nfwd = 0 /\ dbg[t].nbwd = 0) =>
                      Len(dbg[t].vec) = dbg[t].snap[1])
    /\ [][C17_ArgsKept]_vars

\* C17 witness: inner_debug() on an Args of MaxArgc elements that has yielded
\* only its last one returned the others, and the Args still has them, with
\* an ArgsRefs over them alive.
C17_Witness ==
    \E t \in Readers :
       /\ dbg[t] # NoDebug
       /\ dbg[t].snap[1] = MaxArgc
       /\ dbg[t].nfwd = 0 /\ dbg[t].nbwd = 1
       /\ Len(dbg[t].vec) = MaxArgc - 1
       /\ args[t] = dbg[t].it
       /\ refs[t] = [argc |-> args[t].argc, argv |-> args[t].argv]

\* What the arguments of the process convert to, in order.
Converted(p) == [k \in 1..Len(p) |-> ToBytes(p[k])]

\* The arguments that are not UTF-8 text, by index from 0.
NotText(p) == {k \in 0..(Len(p) - 1) : ~Utf8Valid(ToBytes(p[k + 1]))}

\* A step of init or of cleanup on macos / ios.
LifeCallStep == calls' # calls

\* C11: on macos and ios a step of init or cleanup changes nothing but the
\* record of the calls made; whatever init and cleanup calls came before it
\* or ran during it, an args() that returns returns all N arguments of the
\* process in order, and an args() that panics does so because of the
\* arguments alone.
C11_InitCleanupNoOps ==
    /\ [](/\ out.kind = "Args" => out.vec = Converted(procArgs)
          /\ out.kind = "panic" =>
                (target = "ios" /\ NotText(procArgs) # {})
          /\ (out.kind # "none" /\ target = "macos") => out.kind = "Args")
    /\ [][LifeCallStep =>
             /\ <<target, procArgs, dpc, loc, msgs, out>>'
                   = <<target, procArgs, dpc, loc, msgs, out>>
             /\ <<ARGC, ARGV, LOCK, args, refs>>'
                   = <<ARGC, ARGV, LOCK, args, refs>>]_vars

\* C11 witness: args() called after init and then cleanup had both returned
\* has returned all MaxArgc arguments, none of them empty.
C11_Witness ==
    /\ out.kind = "Args"
    /\ out.after = <<"init", "cleanup">>
    /\ Len(out.vec) = MaxArgc
    /\ Len(procArgs) = MaxArgc
    /\ \A k \in 1..Len(out.vec) : out.vec[k] # <<>>

\* C12: on ios, when the conversion reaches an argument whose bytes are not
\* UTF-8, args() panics at that element and drops what it had gathered; so an
\* args() call on a process with such an argument never returns, and every
\* Args returned holds each argument of the process, whole and in its place.
C12_PanicsOnNotText ==
    /\ [](target = "ios" =>
             /\ out.kind = "Args" =>
                   /\ NotText(procArgs) = {}
                   /\ Len(out.vec) = Len(procArgs)
                   /\ \A k \in 1..Len(procArgs) :
                         /\ out.vec[k] = ToBytes(procArgs[k])
                         /\ Utf8Valid(out.vec[k])
             /\ out.kind = "panic" =>
                   /\ out.at \in NotText(procArgs)
                   /\ \A k \in NotText(procArgs) : out.at <= k
                   /\ out.vec = <<>>
             /\ \A k \in 1..Len(loc.res) : Utf8Valid(loc.res[k]))
    /\ [][(dpc = "utf8" /\ dpc' # dpc /\ loc.i \in NotText(procArgs)) =>
             /\ out'.kind = "panic" /\ out'.at = loc.i
             /\ dpc' = "idle" /\ loc'.res = <<>>]_vars

\* C12 witness: args() on ios has panicked at the second argument, after the
\* first had been converted.
C12_Witness ==
    /\ target = "ios"
    /\ out.kind = "panic"
    /\ out.at = 1
    /\ 0 \notin NotText(procArgs)
    /\ dpc = "idle"

\* The messages of a whole args() call on a collection of n elements.
RECURSIVE ElementMsgs(_)
ElementMsgs(n) ==
    IF n = 0 THEN <<>>
    ELSE ElementMsgs(n - 1)
            \o <<<<"objectAtIndex:", n - 1>>, <<"UTF8String", n - 1>>>>

AllMsgs(n) ==
    <<<<"processInfo", -1>>, <<"arguments", -1>>, <<"count", -1>>>>
       \o ElementMsgs(n)

\* C18: on ios the messages args() has sent are at every moment the first so
\* many of: processInfo, arguments, count, then for i = 0, 1, .., count - 1
\* objectAtIndex: i and UTF8String on element i; when args() returns it has
\* sent all of them, each index once, and the Args holds exactly count
\* elements, the i-th being the conversion of element i.
C18_DispatchOrder ==
    [](target = "ios" =>
          /\ Len(msgs) <= Len(AllMsgs(Len(procArgs)))
          /\ msgs = SubSeq(AllMsgs(Len(procArgs)), 1, Len(msgs))
          /\ Len(loc.res) = loc.i
          /\ out.kind = "Args" =>
                /\ msgs = AllMsgs(Len(procArgs))
                /\ Len(out.vec) = Len(procArgs)
                /\ \A i \in 0..(Len(procArgs) - 1) :
                      /\ out.vec[i + 1] = ToBytes(procArgs[i + 1])
                      /\ Cardinality({k \in 1..Len(msgs) :
                            msgs[k] = <<"objectAtIndex:", i>>}) = 1
          /\ (dpc \in {"loop", "utf8"}) =>
                \A i \in 0..(loc.i - 1) :
                   loc.res[i + 1] = ToBytes(procArgs[i + 1]))

\* C18 witness: args() on ios has returned MaxArgc elements, the last of them
\* not ASCII and different from the first.
C18_Witness ==
    /\ target = "ios"
    /\ out.kind = "Args"
    /\ Len(out.vec) = MaxArgc
    /\ Len(msgs) = 3 + 2 * MaxArgc
    /\ out.vec[MaxArgc] = <<195, 169>>
    /\ out.vec[1] # out.vec[MaxArgc]

====
